---- MODULE Spec2Model ----
(***************************************************************************)
(* A model of cmd/iaviewer/main.go: the command-line inspector of an IAVL  *)
(* store.  Byte strings are sequences of numbers 0..255, text is a         *)
(* sequence of one-character strings (paths, arguments) or of character    *)
(* codes (rendered keys).  Standard output and standard error are          *)
(* sequences of records, one per printed line.                             *)
(***************************************************************************)
EXTENDS Integers, Sequences, FiniteSets, TLC

VARIABLES
    args,       \* os.Args[1:], a sequence of texts
    env,        \* the on-disk store and the behaviour of the storage engine
    pc,         \* position of the single thread of control
    status,     \* "running", "exit0", "exit1" (os.Exit(1)) or "panic"
    version,    \* main's local `version`
    tree,       \* entries of the tree loaded by the last ReadTree
    modIdx,     \* PrintStatistics: number of catalog modules already attempted
    handles,    \* store handles opened by OpenDB and not closed since
    calls,      \* log of the calls made into the storage engine and the codecs
    stdout,     \* lines printed on standard output
    stderr,     \* lines printed on standard error
    acc,        \* locals of the running traversal and the iterator's position
    key,        \* parseWeaveKey: its argument
    printKey,   \* parseWeaveKey: its result
    dir,        \* OpenDB: its argument
    dbErr       \* OpenDB: the error it returned ("" for none)

vars == <<args, env, pc, status, version, tree, modIdx, handles, calls,
          stdout, stderr, acc, key, printKey, dir, dbErr>>

---------------------------------------------------------------------------
\* Bounds of the model.

MaxKeyLen == 3
MaxPathLen == 5
MaxEntries == 3
MinTreeSize == 99
MaxTreeSize == 103

---------------------------------------------------------------------------
\* Generic helpers on sequences.

SeqsUpTo(S, n) == UNION {[1..k -> S] : k \in 0..n}

\* Go's s[lo:hi] with 0-based, half-open bounds.
Slice(s, lo, hi) == SubSeq(s, lo + 1, hi)

---------------------------------------------------------------------------
\* Weave-key codec.

COLON == 58

\* bytes.IndexRune(key, ':'): 0-based index of the first ':' byte, or -1.
RECURSIVE IndexFrom(_, _, _)
IndexFrom(s, c, i) ==
    IF i > Len(s) THEN -1
    ELSE IF s[i] = c THEN i - 1
    ELSE IndexFrom(s, c, i + 1)

IndexRune(s, c) == IndexFrom(s, c, 1)

\* hex.EncodeToString: two lower-case digits of "0123456789abcdef" per byte.
HexTable == <<48, 49, 50, 51, 52, 53, 54, 55, 56, 57, 97, 98, 99, 100, 101, 102>>

RECURSIVE EncodeToString(_)
EncodeToString(b) ==
    IF b = <<>> THEN <<>>
    ELSE <<HexTable[(Head(b) \div 16) + 1], HexTable[(Head(b) % 16) + 1]>>
         \o EncodeToString(Tail(b))

\* strings.ToUpper on ASCII text.
ToUpper(s) == [i \in 1..Len(s) |-> IF s[i] >= 97 /\ s[i] <= 122 THEN s[i] - 32 ELSE s[i]]

\* The byte test of encodeID's loop.
NotPrintableM(b) == b <= 32 \/ b >= 128
NotPrintable(b) == b < 32 \/ b >= 128

RECURSIVE EncodeIDFrom(_, _)
EncodeIDFrom(id, i) ==
    IF i > Len(id) THEN id
    ELSE IF NotPrintable(id[i]) THEN ToUpper(EncodeToString(id))
    ELSE EncodeIDFrom(id, i + 1)

encodeID(id) == EncodeIDFrom(id, 1)

parseWeaveKey(k) ==
    LET cut == IndexRune(k, COLON) IN
    IF cut = -1 THEN encodeID(k)
    ELSE encodeID(Slice(k, 0, cut)) \o <<COLON>> \o encodeID(Slice(k, cut + 1, Len(k)))

---------------------------------------------------------------------------
\* Store opener.

\* strings.HasSuffix
HasSuffix(s, suf) ==
    Len(s) >= Len(suf) /\ Slice(s, Len(s) - Len(suf), Len(s)) = suf

\* strings.LastIndex(s, c) for a one-character c: 0-based, or -1.
RECURSIVE LastIndexFrom(_, _, _)
LastIndexFrom(s, c, i) ==
    IF i = 0 THEN -1
    ELSE IF s[i] = c THEN i - 1
    ELSE LastIndexFrom(s, c, i - 1)

LastIndex(s, c) == LastIndexFrom(s, c, Len(s))

DotDb == <<".", "d", "b">>
DotDbSlash == <<".", "d", "b", "/">>

\* The part of OpenDB before the storage engine is called: the error it
\* returns, or the (name, dir) it hands to dbm.NewRocksDB.
OpenDBPathM(d) ==
    IF ~HasSuffix(d, DotDb) /\ ~HasSuffix(d, DotDbSlash)
    THEN [err |-> "database directory must end with .db", name |-> <<>>, parent |-> <<>>]
    ELSE LET s == IF HasSuffix(d, DotDb) THEN Slice(d, 0, Len(d) - 3)
                  ELSE Slice(d, 0, Len(d) - 4)
             cut == LastIndex(s, "/")
         IN [err |-> "", name |-> Slice(s, cut + 1, Len(s)),
             parent |-> Slice(s, 0, IF cut = -1 THEN 0 ELSE cut)]
OpenDBPath(d) ==
    IF ~HasSuffix(d, DotDb) /\ ~HasSuffix(d, DotDbSlash)
    THEN [err |-> "database directory must end with .db", name |-> <<>>, parent |-> <<>>]
    ELSE LET s == IF HasSuffix(d, DotDb) THEN Slice(d, 0, Len(d) - 3)
                  ELSE Slice(d, 0, Len(d) - 4)
             cut == LastIndex(s, "/")
         IN IF cut = -1
            THEN [err |-> "cannot cut paths", name |-> <<>>, parent |-> <<>>]
            ELSE [err |-> "", name |-> Slice(s, cut + 1, Len(s)),
                  parent |-> Slice(s, 0, cut)]

---------------------------------------------------------------------------
\* The tree engine and the storage engine, as far as main.go relies on them.

\* Byte-lexicographic order of keys.
LexLess(a, b) ==
    \/ Len(a) < Len(b) /\ SubSeq(b, 1, Len(a)) = a
    \/ \E i \in 1..Len(a) :
          /\ i <= Len(b)
          /\ SubSeq(a, 1, i - 1) = SubSeq(b, 1, i - 1)
          /\ a[i] < b[i]

\* A tree's entries are kept in strictly ascending key order.
Sorted(es) == \A i \in 1..(Len(es) - 1) : LexLess(es[i].key, es[i + 1].key)

Entry(k, v) == [key |-> k, value |-> v]

\* tree.Size()
Size(t) == Len(t)

\* tree.Get(key): the value stored for key, nil when there is none.
Get(t, k) ==
    IF \E i \in 1..Len(t) : t[i].key = k
    THEN [nil |-> FALSE, bytes |-> t[CHOOSE i \in 1..Len(t) : t[i].key = k].value]
    ELSE [nil |-> TRUE, bytes |-> <<>>]

\* tree.Iterate: entries are handed to the visitor in ascending key order;
\* the position after the entry at pos, or past the end when the visitor
\* asked to stop.
IterateNext(t, pos, stop) == IF stop THEN Len(t) + 1 ELSE pos + 1

\* sha256.Sum256, kept symbolic.
Sum256(v) == <<"sha256", v>>

\* tree.LoadVersion(v): 0 loads the latest version, a missing version fails.
Latest(store) == CHOOSE v \in DOMAIN store.vers : \A w \in DOMAIN store.vers : w <= v

LoadVersion(store, v) ==
    IF v = 0
    THEN [err |-> "", ver |-> Latest(store), entries |-> store.vers[Latest(store)]]
    ELSE IF v \in DOMAIN store.vers
    THEN [err |-> "", ver |-> v, entries |-> store.vers[v]]
    ELSE [err |-> "version does not exist", ver |-> 0, entries |-> <<>>]

\* dbm.NewRocksDB(name, dir): whether the engine hands out a handle.  "ok":
\* always; "lock": only while this process holds no other handle; "fail": never.
EngineOpens(engine, open) ==
    \/ engine = "ok"
    \/ engine = "lock" /\ open = 0

---------------------------------------------------------------------------
\* strconv.Atoi and hex.DecodeString.

Digits == <<"0", "1", "2", "3", "4", "5", "6", "7", "8", "9">>
IsDigit(c) == \E i \in 1..10 : Digits[i] = c
DigitVal(c) == (CHOOSE i \in 1..10 : Digits[i] = c) - 1

RECURSIVE DecimalVal(_)
DecimalVal(s) ==
    IF s = <<>> THEN 0
    ELSE DecimalVal(SubSeq(s, 1, Len(s) - 1)) * 10 + DigitVal(s[Len(s)])

Atoi(s) ==
    LET signed == s # <<>> /\ s[1] \in {"+", "-"}
        body == IF signed THEN Tail(s) ELSE s
    IN IF body = <<>> \/ \E i \in 1..Len(body) : ~IsDigit(body[i])
       THEN [err |-> "invalid syntax", val |-> 0]
       ELSE [err |-> "",
             val |-> IF signed /\ s[1] = "-" THEN 0 - DecimalVal(body) ELSE DecimalVal(body)]

HexLower == <<"0", "1", "2", "3", "4", "5", "6", "7", "8", "9", "a", "b", "c", "d", "e", "f">>
HexUpper == <<"0", "1", "2", "3", "4", "5", "6", "7", "8", "9", "A", "B", "C", "D", "E", "F">>
IsHexChar(c) == \E i \in 1..16 : HexLower[i] = c \/ HexUpper[i] = c
FromHexChar(c) == (CHOOSE i \in 1..16 : HexLower[i] = c \/ HexUpper[i] = c) - 1

RECURSIVE HexPairs(_)
HexPairs(s) ==
    IF Len(s) < 2 THEN <<>>
    ELSE <<FromHexChar(s[1]) * 16 + FromHexChar(s[2])>> \o HexPairs(SubSeq(s, 3, Len(s)))

DecodeString(s) ==
    IF \E i \in 1..Len(s) : ~IsHexChar(s[i])
    THEN [err |-> "invalid byte", bytes |-> <<>>]
    ELSE IF Len(s) % 2 = 1
    THEN [err |-> "odd length hex string", bytes |-> <<>>]
    ELSE [err |-> "", bytes |-> HexPairs(s)]

---------------------------------------------------------------------------
\* OpenDB and ReadTree.

DefaultCacheSize == 10000

\* OpenDB(dir) while `open` handles are held: the error returned, the number of
\* handles it opened and the calls it made into the storage engine.
OpenDB(d, engine, open) ==
    LET p == OpenDBPath(d)
        call == [fn |-> "NewRocksDB", name |-> p.name, dir |-> p.parent]
    IN IF p.err # "" THEN [err |-> p.err, opened |-> 0, calls |-> <<>>]
       ELSE IF ~EngineOpens(engine, open)
       THEN [err |-> "NewRocksDB failed", opened |-> 0, calls |-> <<call>>]
       ELSE [err |-> "", opened |-> 1, calls |-> <<call>>]

\* ReadTree(dir, version, prefix): nothing it opens is closed, on any path.
ReadTree(d, ver, prefix, e, open) ==
    LET db == OpenDB(d, e.engine, open)
        store == e.stores[prefix]
        lv == LoadVersion(store, ver)
    IN IF db.err # ""
       THEN [err |-> db.err, entries |-> <<>>, out |-> <<>>,
             opened |-> db.opened, calls |-> db.calls]
       ELSE IF store.broken
       THEN [err |-> "NewMutableTree failed", entries |-> <<>>, out |-> <<>>,
             opened |-> db.opened, calls |-> db.calls]
       ELSE [err |-> lv.err, entries |-> lv.entries,
             out |-> <<[t |-> "Got version", ver |-> lv.ver]>>,
             opened |-> db.opened, calls |-> db.calls]

---------------------------------------------------------------------------
\* Traversal and reporting.

MaxM(x, y) == IF x > y THEN y ELSE x
Max(x, y) == IF x > y THEN x ELSE y

EntryLine(e, extra) ==
    [t |-> "entry", key |-> parseWeaveKey(e.key), digest |-> Sum256(e.value),
     extra |-> extra]

\* The visitor PrintKeys hands to tree.Iterate.
DigestVisitorM(e) == [lines |-> <<EntryLine(e, <<>>)>>, stop |-> TRUE]
DigestVisitor(e) == [lines |-> <<EntryLine(e, <<>>)>>, stop |-> FALSE]

Acc0 == [pos |-> 1, count |-> 0, keySizeTotal |-> 0, valueSizeTotal |-> 0,
         keyMaxSize |-> 0, valueMaxSize |-> 0]

\* The visitor PrintKeysWithValueSize hands to tree.Iterate; size is tree.Size().
StatsVisitor(a, e, size) ==
    LET count == a.count + 1 IN
    [acc |-> [a EXCEPT !.count = count,
                       !.keySizeTotal = a.keySizeTotal + Len(e.key),
                       !.valueSizeTotal = a.valueSizeTotal + Len(e.value),
                       !.keyMaxSize = Max(a.keyMaxSize, Len(e.key)),
                       !.valueMaxSize = Max(a.valueMaxSize, Len(e.value))],
     lines |-> <<EntryLine(e, <<Len(e.value)>>)>> \o
               (IF size >= 100 /\ count % (size \div 100) = 0
                THEN <<[t |-> "progress", pct |-> (count * 100) \div size]>>
                ELSE <<>>),
     stop |-> FALSE]

\* The lines after the traversal: the totals, then the averages, whose
\* division by count panics when count is 0, then the maxima.
Summary(a) ==
    LET totals == [t |-> "totals", count |-> a.count,
                   keySizeTotal |-> a.keySizeTotal, valueSizeTotal |-> a.valueSizeTotal]
    IN IF a.count = 0
       THEN [panic |-> TRUE, lines |-> <<totals>>]
       ELSE [panic |-> FALSE,
             lines |-> <<totals,
                         [t |-> "avg", key |-> a.keySizeTotal \div a.count,
                          value |-> a.valueSizeTotal \div a.count],
                         [t |-> "max", key |-> a.keyMaxSize, value |-> a.valueMaxSize]>>]

Header == [t |-> "Printing all keys with hashed values (to detect diff)"]

PrintKeysBegin ==
    /\ pc = "PrintKeys"
    /\ stdout' = Append(stdout, Header)
    /\ acc' = Acc0
    /\ pc' = "PrintKeysIterate"
    /\ UNCHANGED <<args, env, status, version, tree, modIdx, handles, calls, stderr,
                   key, printKey, dir, dbErr>>

PrintKeysVisit ==
    /\ pc = "PrintKeysIterate"
    /\ acc.pos <= Len(tree)
    /\ LET r == DigestVisitor(tree[acc.pos]) IN
         /\ stdout' = stdout \o r.lines
         /\ acc' = [acc EXCEPT !.pos = IterateNext(tree, acc.pos, r.stop)]
    /\ UNCHANGED <<args, env, pc, status, version, tree, modIdx, handles, calls, stderr,
                   key, printKey, dir, dbErr>>

PrintKeysEnd ==
    /\ pc = "PrintKeysIterate"
    /\ acc.pos > Len(tree)
    /\ pc' = "PrintKeysReturn"
    /\ UNCHANGED <<args, env, status, version, tree, modIdx, handles, calls, stdout,
                   stderr, acc, key, printKey, dir, dbErr>>

PKVSBegin ==
    /\ pc = "PrintKeysWithValueSize"
    /\ stdout' = Append(stdout, Header)
    /\ acc' = Acc0
    /\ pc' = "PKVSIterate"
    /\ UNCHANGED <<args, env, status, version, tree, modIdx, handles, calls, stderr,
                   key, printKey, dir, dbErr>>

PKVSVisit ==
    /\ pc = "PKVSIterate"
    /\ acc.pos <= Len(tree)
    /\ LET r == StatsVisitor(acc, tree[acc.pos], Size(tree)) IN
         /\ stdout' = stdout \o r.lines
         /\ acc' = [r.acc EXCEPT !.pos = IterateNext(tree, acc.pos, r.stop)]
    /\ UNCHANGED <<args, env, pc, status, version, tree, modIdx, handles, calls, stderr,
                   key, printKey, dir, dbErr>>

PKVSSummary ==
    /\ pc = "PKVSIterate"
    /\ acc.pos > Len(tree)
    /\ LET r == Summary(acc) IN
         /\ stdout' = stdout \o r.lines
         /\ status' = IF r.panic THEN "panic" ELSE status
         /\ pc' = IF r.panic THEN "aborted" ELSE "PKVSReturn"
    /\ UNCHANGED <<args, env, version, tree, modIdx, handles, calls, stderr, acc,
                   key, printKey, dir, dbErr>>

---------------------------------------------------------------------------
\* Specification of parseWeaveKey alone: every key over KeyBytes of at most
\* MaxKeyLen bytes is rendered.

KeyBytes == {0, 31, 32, COLON, 65, 127, 128, 255}

NoEnv == [engine |-> "ok", stores |-> <<>>]

KeyInit ==
    /\ key \in SeqsUpTo(KeyBytes, MaxKeyLen)
    /\ printKey = <<>>
    /\ pc = "parseWeaveKey"
    /\ args = <<>> /\ env = NoEnv /\ status = "running" /\ version = 0
    /\ tree = <<>> /\ modIdx = 0 /\ handles = 0 /\ calls = <<>>
    /\ stdout = <<>> /\ stderr = <<>> /\ acc = Acc0 /\ dir = <<>> /\ dbErr = ""

ParseKey ==
    /\ pc = "parseWeaveKey"
    /\ printKey' = parseWeaveKey(key)
    /\ pc' = "parseWeaveKeyReturn"
    /\ UNCHANGED <<args, env, status, version, tree, modIdx, handles, calls, stdout,
                   stderr, acc, key, dir, dbErr>>

KeyNext == ParseKey

SpecKey == KeyInit /\ [][KeyNext]_vars

---------------------------------------------------------------------------
\* Specification of OpenDB alone: every path over PathChars of at most
\* MaxPathLen characters is opened, under every behaviour of the engine.

PathChars == {"/", ".", "d", "b", "a"}
Engines == {"ok", "lock", "fail"}

OpenInit ==
    /\ dir \in SeqsUpTo(PathChars, MaxPathLen)
    /\ env \in {[engine |-> e, stores |-> <<>>] : e \in Engines}
    /\ dbErr = ""
    /\ pc = "OpenDB"
    /\ args = <<>> /\ status = "running" /\ version = 0
    /\ tree = <<>> /\ modIdx = 0 /\ handles = 0 /\ calls = <<>>
    /\ stdout = <<>> /\ stderr = <<>> /\ acc = Acc0 /\ key = <<>> /\ printKey = <<>>

OpenDBCall ==
    /\ pc = "OpenDB"
    /\ LET r == OpenDB(dir, env.engine, handles) IN
         /\ dbErr' = r.err
         /\ handles' = handles + r.opened
         /\ calls' = calls \o r.calls
    /\ pc' = "OpenDBReturn"
    /\ UNCHANGED <<args, env, status, version, tree, modIdx, stdout, stderr, acc,
                   key, printKey, dir>>

OpenNext == OpenDBCall

SpecOpenDB == OpenInit /\ [][OpenNext]_vars

---------------------------------------------------------------------------
\* Specification of the two traversals alone, over every small tree and over
\* trees large enough for progress to be reported.

EntryKeys == {<<65>>, <<65, COLON>>, <<COLON, 0>>, <<200>>, <<65, COLON, 66>>}
EntryValues == {<<>>, <<1>>, <<1, 2, 3>>}

SmallTrees ==
    {es \in SeqsUpTo({Entry(k, v) : k \in EntryKeys, v \in EntryValues}, MaxEntries) :
        Sorted(es)}

\* n entries with the keys 0, 1, ... as two big-endian bytes.
BigTree(n) ==
    [i \in 1..n |-> Entry(<<(i - 1) \div 256, (i - 1) % 256>>,
                          [j \in 1..(i % 3) |-> i % 256])]

BigTrees == {BigTree(n) : n \in (MinTreeSize..MaxTreeSize) \cup {150, 199, 200}}

StatsInit ==
    /\ tree \in SmallTrees \cup BigTrees
    /\ pc \in {"PrintKeys", "PrintKeysWithValueSize"}
    /\ acc = Acc0
    /\ stdout = <<>>
    /\ args = <<>> /\ env = NoEnv /\ status = "running" /\ version = 0
    /\ modIdx = 0 /\ handles = 0 /\ calls = <<>> /\ stderr = <<>>
    /\ key = <<>> /\ printKey = <<>> /\ dir = <<>> /\ dbErr = ""

StatsNext ==
    \/ PrintKeysBegin
    \/ PrintKeysVisit
    \/ PrintKeysEnd
    \/ PKVSBegin
    \/ PKVSVisit
    \/ PKVSSummary

SpecStats == StatsInit /\ [][StatsNext]_vars

---------------------------------------------------------------------------
\* PrintDBStats: counts the entries of a store handle by the first byte of
\* their keys.  No command of main calls it (nolint: unused,deadcode), so it
\* is no part of Next; it is specified alone, on a handle that is already open.

\* prefix[key]++ on a Go map: a missing key counts from 0.
Increment(prefix, k) ==
    IF k \in DOMAIN prefix THEN [prefix EXCEPT ![k] = @ + 1]
    ELSE [x \in DOMAIN prefix \cup {k} |-> IF x = k THEN 1 ELSE prefix[x]]

\* The orders in which `range prefix` may hand out the keys of the map.
RangeOrders(prefix) ==
    {o \in [1..Cardinality(DOMAIN prefix) -> DOMAIN prefix] :
        \A i, j \in 1..Cardinality(DOMAIN prefix) : i # j => o[i] # o[j]}

DBStats0 == [pos |-> 1, count |-> 0, prefix |-> <<>>]

\* db.Iterator(nil, nil): an error panics.
DBStatsBegin ==
    /\ pc = "PrintDBStats"
    /\ acc' = DBStats0
    /\ status' = IF env.iter = "fail" THEN "panic" ELSE status
    /\ pc' = IF env.iter = "fail" THEN "aborted" ELSE "PrintDBStatsIterate"
    /\ UNCHANGED <<args, env, version, tree, modIdx, handles, calls, stdout, stderr,
                   key, printKey, dir, dbErr>>

\* One turn of the loop: itr.Valid() holds, the first byte of the key is counted.
DBStatsCount ==
    /\ pc = "PrintDBStatsIterate"
    /\ acc.pos <= Len(env.raw)
    /\ acc' = [pos |-> acc.pos + 1,
               count |-> acc.count + 1,
               prefix |-> Increment(acc.prefix, Slice(env.raw[acc.pos].key, 0, 1))]
    /\ UNCHANGED <<args, env, pc, status, version, tree, modIdx, handles, calls, stdout,
                   stderr, key, printKey, dir, dbErr>>

\* itr.Valid() is false: at the end of the store, or earlier when the iterator
\* broke; then itr.Error() panics.  Otherwise the count and one line per first
\* byte are printed, in the order of Go's map iteration.
DBStatsReport ==
    /\ pc = "PrintDBStatsIterate"
    /\ acc.pos > Len(env.raw) \/ env.iter = "broken"
    /\ IF env.iter = "broken"
       THEN /\ status' = "panic"
            /\ pc' = "aborted"
            /\ UNCHANGED stdout
       ELSE /\ \E o \in RangeOrders(acc.prefix) :
                 stdout' = stdout \o <<[t |-> "DB contains entries", count |-> acc.count]>> \o
                           [i \in 1..Len(o) |->
                               [t |-> "prefix", k |-> o[i], v |-> acc.prefix[o[i]]]]
            /\ pc' = "PrintDBStatsReturn"
            /\ UNCHANGED status
    /\ UNCHANGED <<args, env, version, tree, modIdx, handles, calls, stderr, acc,
                   key, printKey, dir, dbErr>>

\* The raw keys of a store: prefixed keys of two modules and an unprefixed one.
RawKeys == {<<115, 1>>, <<115, 2>>, <<110>>, <<114, 0, 7>>}

RawStores ==
    {es \in SeqsUpTo({Entry(k, <<1>>) : k \in RawKeys}, MaxEntries) : Sorted(es)}

Iterators == {"ok", "fail", "broken"}

DBStatsInit ==
    /\ env \in {[engine |-> "ok", stores |-> <<>>, raw |-> r, iter |-> i] :
                  r \in RawStores, i \in Iterators}
    /\ pc = "PrintDBStats"
    /\ handles = 1
    /\ acc = DBStats0
    /\ stdout = <<>>
    /\ args = <<>> /\ status = "running" /\ version = 0 /\ tree = <<>>
    /\ modIdx = 0 /\ calls = <<>> /\ stderr = <<>>
    /\ key = <<>> /\ printKey = <<>> /\ dir = <<>> /\ dbErr = ""

DBStatsNext ==
    \/ DBStatsBegin
    \/ DBStatsCount
    \/ DBStatsReport

SpecDBStats == DBStatsInit /\ [][DBStatsNext]_vars

---------------------------------------------------------------------------
\* The command line.

DATA == <<"d", "a", "t", "a">>
SHAPE == <<"s", "h", "a", "p", "e">>
VERSIONS == <<"v", "e", "r", "s", "i", "o", "n", "s">>
BALANCE == <<"b", "a", "l", "a", "n", "c", "e">>
NONCE == <<"n", "o", "n", "c", "e">>
STASTISTICS == <<"s", "t", "a", "s", "t", "i", "s", "t", "i", "c", "s">>

Commands == {DATA, SHAPE, VERSIONS, BALANCE, NONCE, STASTISTICS}

\* args[i] with Go's 0-based index.
Arg(i) == args[i + 1]

Modules ==
    <<"capability",
      "params",
      "transfer",
      "staking",
      "slashing",
      "distribution",
      "feegrant",
      "upgrade",
      "authz",
      "evidence",
      "feemarket",
      "gravity",
      "gov",
      "cronos",
      "ibc",
      "bank",
      "mint",
      "acc",
      "evm">>

NumModules == 19

\* fmt.Sprintf("s/k:%s/", mod), kept as its three pieces.
ModulePrefix(mod) == <<"s/k:", mod, "/">>

Usage ==
    <<[t |-> "Usage: iaviewer <data|shape|versions> <leveldb dir> <prefix> [version number]"],
      [t |-> "<prefix> is the prefix of db, and the iavl tree of different modules in cosmos-sdk uses "],
      [t |-> "different <prefix> to identify, just like \"s/k:gov/\" represents the prefix of gov module"]>>

\* main up to the switch: the arguments are checked and the version parsed.
MainStart(a) ==
    IF Len(a) < 3 \/ a[1] \notin Commands
    THEN [exit |-> TRUE, err |-> Usage, version |-> 0]
    ELSE IF Len(a) >= 4 /\ Atoi(a[4]).err # ""
    THEN [exit |-> TRUE,
          err |-> <<[t |-> "Invalid version number", err |-> Atoi(a[4]).err]>>,
          version |-> 0]
    ELSE [exit |-> FALSE, err |-> <<>>,
          version |-> IF Len(a) >= 4 THEN Atoi(a[4]).val ELSE 0]

Main ==
    /\ pc = "main"
    /\ LET r == MainStart(args) IN
         /\ stderr' = stderr \o r.err
         /\ status' = IF r.exit THEN "exit1" ELSE status
         /\ version' = r.version
         /\ pc' = IF r.exit THEN "exited"
                  ELSE IF Arg(0) # STASTISTICS THEN "main.ReadTree"
                  ELSE "main.switch"
    /\ UNCHANGED <<args, env, tree, modIdx, handles, calls, stdout, acc,
                   key, printKey, dir, dbErr>>

MainReadTree ==
    /\ pc = "main.ReadTree"
    /\ LET r == ReadTree(Arg(1), version, Arg(2), env, handles) IN
         /\ handles' = handles + r.opened
         /\ calls' = calls \o r.calls
         /\ stdout' = stdout \o r.out
         /\ tree' = r.entries
         /\ stderr' = IF r.err # ""
                      THEN Append(stderr, [t |-> "Error reading data", err |-> r.err])
                      ELSE stderr
         /\ status' = IF r.err # "" THEN "exit1" ELSE status
         /\ pc' = IF r.err # "" THEN "exited" ELSE "main.switch"
    /\ UNCHANGED <<args, env, version, modIdx, acc, key, printKey, dir, dbErr>>

CmdData ==
    /\ pc = "main.switch"
    /\ Arg(0) = DATA
    /\ pc' = "PrintKeys"
    /\ UNCHANGED <<args, env, status, version, tree, modIdx, handles, calls, stdout,
                   stderr, acc, key, printKey, dir, dbErr>>

\* After PrintKeys: tree.Hash() and tree.Size() are printed and main returns.
DataDone ==
    /\ pc = "PrintKeysReturn"
    /\ stdout' = stdout \o <<[t |-> "Hash"], [t |-> "Size", size |-> Size(tree)]>>
    /\ status' = "exit0"
    /\ pc' = "exited"
    /\ UNCHANGED <<args, env, version, tree, modIdx, handles, calls, stderr, acc,
                   key, printKey, dir, dbErr>>

\* PrintShape: tree.RenderShape with nodeEncoder, one line per node.
nodeEncoder(id, depth, isLeaf) ==
    [prefix |-> IF isLeaf THEN "*" ELSE "-", depth |-> depth,
     id |-> IF Len(id) = 0 THEN <<"<nil>">> ELSE parseWeaveKey(id)]

CmdShape ==
    /\ pc = "main.switch"
    /\ Arg(0) = SHAPE
    /\ stdout' = Append(stdout,
                   [t |-> "shape",
                    leaves |-> [i \in 1..Len(tree) |-> nodeEncoder(tree[i].key, 0, TRUE)]])
    /\ status' = "exit0"
    /\ pc' = "exited"
    /\ UNCHANGED <<args, env, version, tree, modIdx, handles, calls, stderr, acc,
                   key, printKey, dir, dbErr>>

\* tree.AvailableVersions(): the committed versions, ascending.
RECURSIVE Ascending(_)
Ascending(S) ==
    IF S = {} THEN <<>>
    ELSE LET m == CHOOSE x \in S : \A y \in S : x <= y
         IN <<m>> \o Ascending(S \ {m})

CmdVersions ==
    /\ pc = "main.switch"
    /\ Arg(0) = VERSIONS
    /\ LET versions == Ascending(DOMAIN env.stores[Arg(2)].vers) IN
         stdout' = stdout \o <<[t |-> "Available versions:"]>> \o
                   [i \in 1..Len(versions) |-> [t |-> "version", v |-> versions[i]]]
    /\ status' = "exit0"
    /\ pc' = "exited"
    /\ UNCHANGED <<args, env, version, tree, modIdx, handles, calls, stderr, acc,
                   key, printKey, dir, dbErr>>

\* case "balance" and case "nonce": args[4] is indexed without a check of
\* len(args), and a hex string that does not decode panics.
AddrPanics(a) == Len(a) < 5 \/ DecodeString(a[5]).err # ""

CmdBalance ==
    /\ pc = "main.switch"
    /\ Arg(0) = BALANCE
    /\ status' = IF AddrPanics(args) THEN "panic" ELSE status
    /\ pc' = IF AddrPanics(args) THEN "aborted" ELSE "PrintBalance"
    /\ UNCHANGED <<args, env, version, tree, modIdx, handles, calls, stdout, stderr, acc,
                   key, printKey, dir, dbErr>>

CmdNonce ==
    /\ pc = "main.switch"
    /\ Arg(0) = NONCE
    /\ status' = IF AddrPanics(args) THEN "panic" ELSE status
    /\ pc' = IF AddrPanics(args) THEN "aborted" ELSE "PrintAccount"
    /\ UNCHANGED <<args, env, version, tree, modIdx, handles, calls, stdout, stderr, acc,
                   key, printKey, dir, dbErr>>

CmdStatistics ==
    /\ pc = "main.switch"
    /\ Arg(0) = STASTISTICS
    /\ modIdx' = 0
    /\ pc' = "PrintStatistics"
    /\ UNCHANGED <<args, env, status, version, tree, handles, calls, stdout, stderr, acc,
                   key, printKey, dir, dbErr>>

---------------------------------------------------------------------------
\* Record decoders.

\* address.MustLengthPrefix for an address of at most 255 bytes.
LengthPrefix(addr) == <<Len(addr)>> \o addr

Basecro == <<98, 97, 115, 101, 99, 114, 111>>

BalanceKey(addr) == <<2>> \o LengthPrefix(addr) \o Basecro

\* authtypes.AddressStoreKey
AddressStoreKey(addr) == <<1>> \o addr

\* The lookup of PrintBalance and PrintAccount and the branch on value == nil:
\* whether a decoder is called, and on which value.
LookupM(t, k) == [decode |-> TRUE, value |-> Get(t, k).bytes]
Lookup(t, k) ==
    LET v == Get(t, k) IN
    IF v.nil THEN [decode |-> FALSE, value |-> <<>>]
    ELSE [decode |-> TRUE, value |-> v.bytes]

Addr == DecodeString(Arg(4)).bytes

\* What the value decodes to is the codec's business: either outcome.
Decode(fn, k, line) ==
    LET r == Lookup(tree, k) IN
    IF ~r.decode
    THEN /\ stdout' = Append(stdout, [t |-> "not found"])
         /\ status' = "exit0"
         /\ pc' = "exited"
         /\ calls' = calls
    ELSE /\ calls' = Append(calls, [fn |-> fn, value |-> r.value])
         /\ \E ok \in BOOLEAN :
              /\ stdout' = IF ok THEN Append(stdout, [t |-> line, value |-> r.value])
                           ELSE stdout
              /\ status' = IF ok THEN "exit0" ELSE "panic"
              /\ pc' = IF ok THEN "exited" ELSE "aborted"

PrintBalance ==
    /\ pc = "PrintBalance"
    /\ Decode("MustUnmarshal", BalanceKey(Addr), "balance")
    /\ UNCHANGED <<args, env, version, tree, modIdx, handles, stderr, acc,
                   key, printKey, dir, dbErr>>

PrintAccount ==
    /\ pc = "PrintAccount"
    /\ Decode("UnmarshalInterface", AddressStoreKey(Addr), "sequence")
    /\ UNCHANGED <<args, env, version, tree, modIdx, handles, stderr, acc,
                   key, printKey, dir, dbErr>>

---------------------------------------------------------------------------
\* Statistics aggregator.

\* One turn of PrintStatistics's loop up to the call of PrintKeysWithValueSize.
StatsModule ==
    /\ pc = "PrintStatistics"
    /\ modIdx < NumModules
    /\ LET mod == Modules[modIdx + 1]
           r == ReadTree(Arg(1), version, ModulePrefix(mod), env, handles)
       IN /\ handles' = handles + r.opened
          /\ calls' = calls \o r.calls
          /\ IF r.err # ""
             THEN /\ stderr' = Append(stderr,
                                 [t |-> "Error reading module data", mod |-> mod, err |-> r.err])
                  /\ stdout' = stdout \o r.out
                  /\ modIdx' = modIdx + 1
                  /\ UNCHANGED <<pc, tree>>
             ELSE /\ stdout' = stdout \o r.out \o
                        <<[t |-> "iterating over", mod |-> mod, idx |-> modIdx + 1,
                           of |-> Len(Modules)],
                          [t |-> "tree size", size |-> Size(r.entries)]>>  \* and tree.Height()
                  /\ tree' = r.entries
                  /\ pc' = "PrintKeysWithValueSize"
                  /\ UNCHANGED <<stderr, modIdx>>
    /\ UNCHANGED <<args, env, status, version, acc, key, printKey, dir, dbErr>>

\* The rest of the turn, after PrintKeysWithValueSize returned.
StatsModuleDone ==
    /\ pc = "PKVSReturn"
    /\ stdout' = Append(stdout, [t |-> ""])
    /\ modIdx' = modIdx + 1
    /\ pc' = "PrintStatistics"
    /\ UNCHANGED <<args, env, status, version, tree, handles, calls, stderr, acc,
                   key, printKey, dir, dbErr>>

StatsReturn ==
    /\ pc = "PrintStatistics"
    /\ modIdx = NumModules
    /\ status' = "exit0"
    /\ pc' = "exited"
    /\ UNCHANGED <<args, env, version, tree, modIdx, handles, calls, stdout, stderr, acc,
                   key, printKey, dir, dbErr>>

---------------------------------------------------------------------------
\* Specification of the whole program: every command line over a few
\* arguments, run against a few stores.

DirArgs == {<<"a", "/", "b", ".", "d", "b">>, <<"b", ".", "d", "b">>, <<"a", "/", "b">>}
PrefixArgs == {<<>>, <<"s">>}
VersionArgs == {<<"7">>, <<"1", "7">>, <<"x">>}
AddrArgs == {<<"0", "a">>, <<"0", "B">>, <<"g", "0">>, <<"0">>}
CmdArgs == Commands \cup {<<"d", "u", "m", "p">>}

ArgLists ==
    {<<>>}
    \cup {<<c>> : c \in CmdArgs}
    \cup {<<c, d>> : c \in CmdArgs, d \in DirArgs}
    \cup {<<c, d, p>> : c \in CmdArgs, d \in DirArgs, p \in PrefixArgs}
    \cup {<<c, d, p, v>> : c \in CmdArgs, d \in DirArgs, p \in PrefixArgs, v \in VersionArgs}
    \cup {<<c, d, p, v, a>> : c \in CmdArgs, d \in DirArgs, p \in PrefixArgs,
                              v \in VersionArgs, a \in AddrArgs}

\* Version 7 holds one entry; version 8 also holds the account and the
\* balance of address 0A.
Tree7 == <<Entry(<<65>>, <<1, 2>>)>>
Tree8 == <<Entry(AddressStoreKey(<<10>>), <<9>>),
           Entry(BalanceKey(<<10>>), <<5, 5>>),
           Entry(<<65, COLON, 0>>, <<1, 2, 3>>)>>

BrokenStore == [broken |-> TRUE, vers |-> (7 :> <<>>)]
EmptyStore == [broken |-> FALSE, vers |-> (7 :> <<>>)]
FullStore == [broken |-> FALSE, vers |-> (7 :> Tree7 @@ 8 :> Tree8)]
Stores == {BrokenStore, EmptyStore, FullStore}

Prefixes == PrefixArgs \cup {ModulePrefix(Modules[i]) : i \in 1..Len(Modules)}

\* The stores behind the prefixes: a for the prefixes of the command line and
\* the odd catalog positions, b for the even ones.
Image(a, b) ==
    [p \in Prefixes |->
        IF p \in PrefixArgs THEN a
        ELSE IF (CHOOSE i \in 1..Len(Modules) : ModulePrefix(Modules[i]) = p) % 2 = 1 THEN a
        ELSE b]

Envs == {[engine |-> e, stores |-> Image(a, b)] : e \in Engines, a \in Stores, b \in Stores}

Init ==
    /\ args \in ArgLists
    /\ env \in Envs
    /\ pc = "main"
    /\ status = "running"
    /\ version = 0
    /\ tree = <<>>
    /\ modIdx = 0
    /\ handles = 0
    /\ calls = <<>>
    /\ stdout = <<>>
    /\ stderr = <<>>
    /\ acc = Acc0
    /\ key = <<>> /\ printKey = <<>> /\ dir = <<>> /\ dbErr = ""

Next ==
    \/ Main
    \/ MainReadTree
    \/ CmdData
    \/ PrintKeysBegin
    \/ PrintKeysVisit
    \/ PrintKeysEnd
    \/ DataDone
    \/ CmdShape
    \/ CmdVersions
    \/ CmdBalance
    \/ PrintBalance
    \/ CmdNonce
    \/ PrintAccount
    \/ CmdStatistics
    \/ StatsModule
    \/ PKVSBegin
    \/ PKVSVisit
    \/ PKVSSummary
    \/ StatsModuleDone
    \/ StatsReturn

Spec == Init /\ [][Next]_vars

---------------------------------------------------------------------------
\* Verification conditions.

Finished == status # "running"

LastLines(n) == SubSeq(stdout, Len(stdout) - n + 1, Len(stdout))

LinesOf(out, tag) == SelectSeq(out, LAMBDA l : l.t = tag)

\* C1: once PrintStatistics is entered, every run ends normally after all
\* NumModules catalog modules were attempted; no module's failure ends the
\* process early.
C1_EveryModuleAttempted ==
    (Len(args) >= 3 /\ Arg(0) = STASTISTICS /\ Finished /\ status # "exit1")
        => (status = "exit0" /\ modIdx = NumModules)

AboutToOpen ==
    \/ pc = "main.ReadTree"
    \/ pc = "PrintStatistics" /\ modIdx < NumModules

\* C2: at most one store handle is open at any time, and whenever OpenDB is
\* about to be called (by main's ReadTree or by a turn of PrintStatistics's
\* loop) every handle opened before has been closed.
C2_OneHandleAtATime ==
    /\ handles <= 1
    /\ AboutToOpen => handles = 0

IsIntegerText(s) ==
    LET body == IF s # <<>> /\ s[1] \in {"+", "-"} THEN Tail(s) ELSE s
    IN body # <<>> /\ \A i \in 1..Len(body) : body[i] \in {Digits[d] : d \in 1..10}

BadArgs ==
    \/ Len(args) < 3
    \/ Arg(0) \notin Commands
    \/ Len(args) >= 4 /\ ~IsIntegerText(Arg(3))
    \/ Arg(0) \in {BALANCE, NONCE} /\ Len(args) < 5

\* C3: a command line with fewer than 3 arguments, an unknown command, a
\* version that is no integer, or balance/nonce without the address argument
\* ends with a message on standard error and exit status 1, never with a panic.
C3_BadArgsExitOne ==
    (BadArgs /\ Finished) => (status = "exit1" /\ stderr # <<>>)

\* C4: PrintKeysWithValueSize over an empty tree does not divide by zero: it
\* prints the totals, the averages and the maxima and returns.
C4_EmptyTreeReturns ==
    (pc \in {"PKVSReturn", "aborted"} /\ Len(tree) = 0)
        => /\ status # "panic"
           /\ pc = "PKVSReturn"
           /\ [i \in 1..3 |-> LastLines(3)[i].t] = <<"totals", "avg", "max">>

Progress == LinesOf(stdout, "progress")

\* C5: during one traversal every percentage is printed at most once, the
\* printed percentages increase strictly and never exceed 100, so at most 100
\* progress lines are printed.
C5_ProgressOncePerPercent ==
    pc \in {"PKVSIterate", "PKVSReturn"}
        => /\ \A i \in 1..Len(Progress) : Progress[i].pct <= 100
           /\ \A i \in 1..(Len(Progress) - 1) : Progress[i].pct < Progress[i + 1].pct
           /\ Len(Progress) <= 100

KeyLen(e) == Len(e.key)
ValueLen(e) == Len(e.value)

\* Sums over the entries lo..hi, halving the range.
RECURSIVE SumKeyLensIn(_, _, _)
SumKeyLensIn(t, lo, hi) ==
    IF lo > hi THEN 0
    ELSE IF lo = hi THEN KeyLen(t[lo])
    ELSE SumKeyLensIn(t, lo, (lo + hi) \div 2) + SumKeyLensIn(t, (lo + hi) \div 2 + 1, hi)
SumKeyLens(t) == SumKeyLensIn(t, 1, Len(t))

RECURSIVE SumValueLensIn(_, _, _)
SumValueLensIn(t, lo, hi) ==
    IF lo > hi THEN 0
    ELSE IF lo = hi THEN ValueLen(t[lo])
    ELSE SumValueLensIn(t, lo, (lo + hi) \div 2) + SumValueLensIn(t, (lo + hi) \div 2 + 1, hi)
SumValueLens(t) == SumValueLensIn(t, 1, Len(t))

Largest(S) == CHOOSE m \in S : \A x \in S : x <= m

\* C6: over a non-empty tree of N entries PrintKeysWithValueSize returns after
\* printing N, the sums of the key and of the value lengths, the two sums
\* divided by N (integer division) and the largest key and value length.
C6_StatisticsMatch ==
    (pc \in {"PKVSReturn", "aborted"} /\ Len(tree) >= 1)
        => /\ pc = "PKVSReturn"
           /\ LastLines(3) =
                <<[t |-> "totals", count |-> Len(tree),
                   keySizeTotal |-> SumKeyLens(tree),
                   valueSizeTotal |-> SumValueLens(tree)],
                  [t |-> "avg", key |-> SumKeyLens(tree) \div Len(tree),
                   value |-> SumValueLens(tree) \div Len(tree)],
                  [t |-> "max",
                   key |-> Largest({KeyLen(tree[i]) : i \in 1..Len(tree)}),
                   value |-> Largest({ValueLen(tree[i]) : i \in 1..Len(tree)})]>>

C6_Witness ==
    /\ pc = "PKVSReturn"
    /\ Len(tree) = 3
    /\ LastLines(1)[1].value > LastLines(2)[1].value
    /\ LastLines(1)[1].key > LastLines(2)[1].key
    /\ LastLines(3)[1].keySizeTotal % 3 # 0

UpperHexDigit(n) == IF n < 10 THEN 48 + n ELSE 55 + n

RefSeg(b) ==
    IF \A i \in 1..Len(b) : b[i] \in 32..127
    THEN b
    ELSE [i \in 1..(2 * Len(b)) |->
            IF i % 2 = 1 THEN UpperHexDigit(b[(i + 1) \div 2] \div 16)
            ELSE UpperHexDigit(b[i \div 2] % 16)]

RefRender(k) ==
    IF \A i \in 1..Len(k) : k[i] # COLON
    THEN RefSeg(k)
    ELSE LET first == CHOOSE i \in 1..Len(k) :
                          k[i] = COLON /\ \A j \in 1..(i - 1) : k[j] # COLON
         IN RefSeg(SubSeq(k, 1, first - 1)) \o <<COLON>> \o RefSeg(SubSeq(k, first + 1, Len(k)))

\* C7: parseWeaveKey(key) is the reference rendering: the segment before the
\* first ':' and the segment after it (or the whole key when it holds no ':'),
\* each as it is when all its bytes lie in 0x20..0x7F and as upper-case
\* hexadecimal of the whole segment otherwise, joined by ':'.
C7_RenderingIsReference ==
    pc = "parseWeaveKeyReturn" => printKey = RefRender(key)

C7_Witness ==
    /\ pc = "parseWeaveKeyReturn"
    /\ key = <<127, COLON, 31>>
    /\ printKey = <<127, COLON, 49, 70>>

EndsIn(p, suf) ==
    Len(p) >= Len(suf) /\ \A i \in 1..Len(suf) : p[Len(p) - Len(suf) + i] = suf[i]

Stripped(p) ==
    IF EndsIn(p, DotDb) THEN SubSeq(p, 1, Len(p) - 3) ELSE SubSeq(p, 1, Len(p) - 4)

Slashes(p) == {i \in 1..Len(p) : p[i] = "/"}

\* C8: OpenDB returns an error without calling the storage engine when the
\* path ends neither in ".db" nor in ".db/", and when the path without that
\* suffix holds no '/'; the engine is called only for the other paths, with
\* the text after the last '/' as name and the text before it as directory.
C8_OpenDBValidatesPath ==
    pc = "OpenDBReturn" =>
        LET ends == EndsIn(dir, DotDb) \/ EndsIn(dir, DotDbSlash)
            good == ends /\ Slashes(Stripped(dir)) # {}
        IN /\ ~good => (dbErr # "" /\ calls = <<>> /\ handles = 0)
           /\ calls # <<>> =>
                /\ good
                /\ LET last == Largest(Slashes(Stripped(dir))) IN
                     calls = <<[fn |-> "NewRocksDB",
                                name |-> SubSeq(Stripped(dir), last + 1, Len(Stripped(dir))),
                                dir |-> SubSeq(Stripped(dir), 1, last - 1)]>>

C8_Witness ==
    /\ pc = "OpenDBReturn"
    /\ dir = <<"a", ".", "d", "b", "/">>
    /\ dbErr = "cannot cut paths"
    /\ calls = <<>>

Decoders == {"MustUnmarshal", "UnmarshalInterface"}
DecoderCalls == SelectSeq(calls, LAMBDA c : c.fn \in Decoders)

LookupDone ==
    /\ Len(args) >= 5
    /\ Arg(0) \in {BALANCE, NONCE}
    /\ pc \in {"exited", "aborted"}
    /\ status \in {"exit0", "panic"}
    /\ ~AddrPanics(args)

LookupKey ==
    IF Arg(0) = BALANCE THEN <<2, Len(Addr)>> \o Addr \o Basecro ELSE <<1>> \o Addr

Absent == \A i \in 1..Len(tree) : tree[i].key # LookupKey

\* C9: balance and nonce print "not found", call no decoder and end normally
\* when the tree holds no value for the key built from the address; a decoder
\* is called only when the tree holds a value for it.
C9_AbsentKeyIsNotFound ==
    LookupDone =>
        /\ Absent => /\ status = "exit0"
                     /\ LastLines(1)[1].t = "not found"
                     /\ DecoderCalls = <<>>
                     /\ LinesOf(stdout, "balance") \o LinesOf(stdout, "sequence") = <<>>
        /\ DecoderCalls # <<>> => ~Absent

C9_Witness ==
    /\ LookupDone
    /\ Absent
    /\ tree # <<>>
    /\ LastLines(1)[1].t = "not found"

Visited == acc.pos - 1

\* C10: neither visitor stops the traversal: while and after a traversal the
\* entries printed so far are the first entries of the tree, one line per
\* entry and in the tree's ascending key order, and a traversal ends only
\* after every entry was visited.
C10_FullOrderedTraversal ==
    /\ Sorted(tree)
    /\ pc \in {"PrintKeysIterate", "PrintKeysReturn"} =>
         /\ Visited <= Len(tree)
         /\ LinesOf(stdout, "entry") = [i \in 1..Visited |-> EntryLine(tree[i], <<>>)]
         /\ pc = "PrintKeysReturn" => Visited = Len(tree)
    /\ pc \in {"PKVSIterate", "PKVSReturn"} =>
         /\ Visited <= Len(tree)
         /\ acc.count = Visited
         /\ LinesOf(stdout, "entry") =
                [i \in 1..Visited |-> EntryLine(tree[i], <<Len(tree[i].value)>>)]
         /\ pc = "PKVSReturn" => Visited = Len(tree)

C10_Witness ==
    /\ pc = "PrintKeysReturn"
    /\ Len(tree) = 3
    /\ Len(LinesOf(stdout, "entry")) = 3

====
